---- MODULE Spec2Model ----
(***************************************************************************)
(* Coupling analyser: extraction of the call graph (ExtratorCodigo),       *)
(* the Zhang entropy / judgment-matrix model (AnalisadorZhang), the Dou    *)
(* VRM model (AnalisadorDou) and the Briand elementary-coupling model      *)
(* (CouplingAnalyzer).                                                     *)
(*                                                                         *)
(* Each component has its own specification over the shared variables:     *)
(*   SpecDou      AnalisadorDou.__init__, step by step, run twice          *)
(*   SpecZhang    obter_matriz_adjacencia + AnalisadorZhang.__init__       *)
(*   SpecExtrator ExtratorCodigo._encontrar_funcoes/_analisar_chamadas     *)
(*   SpecBriand   CouplingAnalyzer.analyze_source, called repeatedly       *)
(*                                                                         *)
(* Floating-point values are kept exact: a rational is a record            *)
(* [num, den] with den > 0; sqrt and log10 are kept symbolic.              *)
(***************************************************************************)
EXTENDS Integers, Sequences, FiniteSets, TLC

\* ------------------------------------------------------------------ bounds
MaxLinhas == 2

MaxPartes == 2

MaxFuncsAuto == 2

MaxCallsAuto == 2

MaxVars == 4

MaxDeps == 4

MaxFuncs == 4

MaxEdges == 3

MaxOverrides == 2

MaxDefs == 3

MaxCalls == 2

MaxSources == 2

MaxCallNodes == 2

MaxArgs == 2

MaxPotencia == 2

MaxCentesimos == 600

MaxStmts == 2

MaxNomes == 2

\* --------------------------------------------------------------- rationals
Abs(a) == IF a < 0 THEN -a ELSE a

RECURSIVE Gcd(_, _)
Gcd(a, b) == IF b = 0 THEN a ELSE Gcd(b, a % b)

\* the rational a / b (b # 0) in lowest terms with a positive denominator
Rat(a, b) ==
  LET g == Gcd(Abs(a), Abs(b))
      sgn == IF b < 0 THEN -1 ELSE 1
  IN [num |-> sgn * (a \div g), den |-> sgn * (b \div g)]

RZero == Rat(0, 1)

ROne == Rat(1, 1)

RAdd(x, y) == Rat(x.num * y.den + y.num * x.den, x.den * y.den)

RMul(x, y) == Rat(x.num * y.num, x.den * y.den)

\* x / y for y # 0
RDiv(x, y) == Rat(x.num * y.den, x.den * y.num)

REq(x, y) == x.num * y.den = y.num * x.den

RLt(x, y) == x.num * y.den < y.num * x.den

RLe(x, y) == x.num * y.den <= y.num * x.den

RECURSIVE RSumSeq(_)
RSumSeq(s) == IF s = <<>> THEN RZero ELSE RAdd(Head(s), RSumSeq(Tail(s)))

RECURSIVE SumSeq(_)
SumSeq(s) == IF s = <<>> THEN 0 ELSE Head(s) + SumSeq(Tail(s))

Max2(a, b) == IF a >= b THEN a ELSE b

\* all orderings of a finite set, as sequences without repetition
Perms(S) == {s \in [1..Cardinality(S) -> S] : \A i, j \in 1..Cardinality(S) : i # j => s[i] # s[j]}

VARIABLES
  \* ---- AnalisadorDou
  variaveis,            \* self.variaveis: list(variaveis_dict.keys())
  frequencia,           \* variaveis_dict[var]["frequencia"]
  manual_coefficients,  \* dict, possibly without some keys
  var_dependencies,     \* dict var -> set of the variables it depends on
  dou_pc,               \* position inside __init__
  dou_erro,             \* exception that left __init__, or "none"
  mc_values, sc_values, hc_values,
  desvio2,              \* square of the deviation term (soma_quadrados / N)
  profundidades, visitados, fila,
  dou_result,           \* C_vrm, C_medio, HC_medio, SC_medio, detalhado
  execucoes,            \* how many times the analysis was started on this input
  prof_anterior,        \* depth labels of the previous run on the same input
  \* ---- main.obter_matriz_adjacencia + AnalisadorZhang
  funcoes,              \* funcoes_ordenadas
  chamadas,             \* extrator.chamadas: dict caller -> set of callees
  probabilidades,       \* dict function -> probability, possibly without some keys
  matriz_adjacencia,
  zhang_pc,
  zhang_erro,           \* exception that left __init__, or "none"
  contagem,             \* M, M_diretos, graus
  entropy,              \* H_entropy (the terms added to H_total), detalhado, H_normalized
  julgamento,           \* matriz_julgamento, lambda_max, sorting_vector, C_judgment
  \* ---- ExtratorCodigo
  fonte,                \* the function definitions of the project, in traversal order
  ext_funcoes,          \* self.funcoes: the dict as the sequence of its items
  ext_pc,
  \* ---- CouplingAnalyzer
  elementary,           \* self.elementary
  vistas,               \* the calls the visitor recorded, over every source analysed
  analises,             \* number of analyze_source calls made
  \* ---- ExtratorCodigo: variables and their dependencies
  corpos,               \* the statements of the functions of self.funcoes, in dict order
  ext_variaveis,        \* self.variaveis: dict qualified variable name -> info
  ext_var_dependencies, \* self.var_dependencies: dict variable -> set of variables
  var_pc,
  \* ---- classificacao_acoplamento
  cls_modelo,           \* which class the method belongs to
  cls_valor,            \* self.H_entropy or self.C_vrm
  cls_classe,           \* the string returned, or "none" before the call
  \* ---- main.solicitar_probabilidades
  sp_funcoes,           \* funcoes_ordenadas
  sp_linhas,            \* the lines input() returns, the terminating line last
  sp_pos,               \* how many lines have been read
  sp_probabilidades,    \* probabilidades: dict function -> float
  sp_anterior,          \* probabilidades before the last line read
  sp_pc,
  \* ---- AutomaticCouplingAnalyzer
  auto_functions,       \* self.functions: the dict as the sequence of its values
  auto_couplings,       \* self.couplings
  auto_matrix,          \* the dict generate_coupling_matrix returns
  auto_pc

douVars == <<variaveis, frequencia, manual_coefficients, var_dependencies, dou_pc,
             dou_erro, mc_values, sc_values, hc_values, desvio2, profundidades,
             visitados, fila, dou_result, execucoes, prof_anterior>>

zhangVars == <<funcoes, chamadas, probabilidades, matriz_adjacencia, zhang_pc, zhang_erro,
               contagem, entropy, julgamento>>

extVars == <<fonte, ext_funcoes, ext_pc>>

briandVars == <<elementary, vistas, analises>>

varVars == <<corpos, ext_variaveis, ext_var_dependencies, var_pc>>

clsVars == <<cls_modelo, cls_valor, cls_classe>>

probVars == <<sp_funcoes, sp_linhas, sp_pos, sp_probabilidades, sp_anterior, sp_pc>>

autoVars == <<auto_functions, auto_couplings, auto_matrix, auto_pc>>

vars == <<douVars, zhangVars, extVars, briandVars, varVars, clsVars, probVars, autoVars>>

\* ------------------------------------------- a component that is not running
DouParado ==
  /\ variaveis = <<>>
  /\ frequencia = <<>>
  /\ manual_coefficients = <<>>
  /\ var_dependencies = <<>>
  /\ dou_pc = "parado"
  /\ dou_erro = "none"
  /\ mc_values = <<>>
  /\ sc_values = <<>>
  /\ hc_values = <<>>
  /\ desvio2 = RZero
  /\ profundidades = <<>>
  /\ visitados = {}
  /\ fila = <<>>
  /\ dou_result = <<>>
  /\ execucoes = 1
  /\ prof_anterior = <<>>

BriandParado ==
  /\ elementary = <<>>
  /\ vistas = <<>>
  /\ analises = 0

ExtParado ==
  /\ fonte = <<>>
  /\ ext_funcoes = <<>>
  /\ ext_pc = "parado"

VarParado ==
  /\ corpos = <<>>
  /\ ext_variaveis = <<>>
  /\ ext_var_dependencies = <<>>
  /\ var_pc = "parado"

ClsParado ==
  /\ cls_modelo = "none"
  /\ cls_valor = RZero
  /\ cls_classe = "none"

ProbParado ==
  /\ sp_funcoes = <<>>
  /\ sp_linhas = <<>>
  /\ sp_pos = 0
  /\ sp_probabilidades = <<>>
  /\ sp_anterior = <<>>
  /\ sp_pc = "parado"

AutoParado ==
  /\ auto_functions = <<>>
  /\ auto_couplings = <<>>
  /\ auto_matrix = <<>>
  /\ auto_pc = "parado"

ZhangParado ==
  /\ funcoes = <<>>
  /\ chamadas = <<>>
  /\ probabilidades = <<>>
  /\ matriz_adjacencia = <<>>
  /\ zhang_pc = "parado"
  /\ zhang_erro = "none"
  /\ contagem = <<>>
  /\ entropy = <<>>
  /\ julgamento = <<>>

\* ============================================================ AnalisadorDou
\* A value of the VRM model: q + s * desvio, desvio = sqrt(desvio2) kept symbolic.
SVal(q, s) == [q |-> q, s |-> s]

SAdd(x, y) == SVal(RAdd(x.q, y.q), RAdd(x.s, y.s))

SDivInt(x, k) == SVal(RDiv(x.q, Rat(k, 1)), RDiv(x.s, Rat(k, 1)))

SFromRat(r) == SVal(r, RZero)

SZero == SFromRat(RZero)

RECURSIVE SSumSeq(_)
SSumSeq(s) == IF s = <<>> THEN SZero ELSE SAdd(Head(s), SSumSeq(Tail(s)))

Range(s) == {s[i] : i \in DOMAIN s}

VarSet == Range(variaveis)

n_vars == Len(variaveis)

\* the dict of dependencies of an edge set E of pairs <<a, b>> (a depends on b):
\* a defaultdict(set) holds a key only for a variable that received a dependency
DepsDict(E) == [a \in {e[1] : e \in E} |-> {e[2] : e \in {x \in E : x[1] = a}}]

\* Xi of each variable of a function made of one assignment `a = b` per edge of E
\* (a variable outside every assignment is mentioned once)
FrequenciaDe(V, E) ==
  [v \in V |-> Max2(1, Cardinality({e \in E : e[1] = v}) + Cardinality({e \in E : e[2] = v}))]

\* self.manual_coefficients.get(var, 1.0)
MCde(var) == IF var \in DOMAIN manual_coefficients THEN manual_coefficients[var] ELSE ROne

\* soma_quadrados / N with mi = mean(frequencias)
Desvio2De(freq, V) ==
  LET N == Cardinality(V)
      tot == SumSeq([i \in 1..Len(variaveis) |-> freq[variaveis[i]]])
      mi == Rat(tot, N)
      quad(v) == LET d == RAdd(Rat(freq[v], 1), Rat(-mi.num, mi.den)) IN RMul(d, d)
      soma_quadrados == RSumSeq([i \in 1..Len(variaveis) |-> quad(variaveis[i])])
  IN RDiv(soma_quadrados, Rat(N, 1))

\* 2.0 ** e
Pow2(e) == IF e >= 0 THEN Rat(2 ^ e, 1) ELSE Rat(1, 2 ^ (-e))

\* mutant: the root guarded as in the function-level variant (HC = 1.0 at depth 0)
HCdeComGuarda(dep_i) ==
  IF dep_i > 0 THEN RMul(Rat(dep_i + 1, 1), RDiv(ROne, Pow2(dep_i - 1))) ELSE ROne

\* (dep_i + 1) * (1.0 / (2.0 ** (dep_i - 1)))
HCde(dep_i) == RMul(Rat(dep_i + 1, 1), RDiv(ROne, Pow2(dep_i - 1)))

\* mutant: a deviation term scaled by the variable's own frequency
SCdePorVariavel(Xi) == SVal(Rat(Xi, 1), Rat(Xi, 1))

\* line 62: Xi + desvio, the one desvio of line 51 for every variable
SCde(Xi) == SVal(Rat(Xi, 1), ROne)

\* lines 34-62: MC and SC of every variable; the statistics print takes
\* frequencias.min() and raises ValueError on an empty array
CalcularMCSC ==
  /\ dou_pc = "inicio"
  /\ mc_values' = [v \in VarSet |-> MCde(v)]
  /\ IF n_vars = 0
       THEN /\ dou_pc' = "raised"
            /\ dou_erro' = "ValueError"
            /\ UNCHANGED <<sc_values, desvio2>>
       ELSE /\ desvio2' = Desvio2De(frequencia, VarSet)
            /\ sc_values' = [v \in VarSet |-> SCde(frequencia[v])]
            /\ dou_pc' = "raizes"
            /\ UNCHANGED dou_erro
  /\ UNCHANGED <<variaveis, frequencia, manual_coefficients, var_dependencies, hc_values,
                 profundidades, visitados, fila, dou_result, execucoes, prof_anterior>>
  /\ UNCHANGED <<zhangVars, extVars, briandVars, varVars, clsVars, probVars, autoVars>>

\* var not in self.var_dependencies or len(self.var_dependencies[var]) == 0
EhRaiz(var) == var \notin DOMAIN var_dependencies \/ Cardinality(var_dependencies[var]) = 0

\* mutant: the root test indexes the defaultdict for every variable, which
\* gives a key with an empty set to each variable that had none
DepsAposRaizesIndexando(deps, V) ==
  [v \in (DOMAIN deps) \cup V |-> IF v \in DOMAIN deps THEN deps[v] ELSE {}]

\* line 89: self.var_dependencies after the root test of every variable of V;
\* `var not in d or len(d[var]) == 0` indexes d only for a key it holds
DepsAposRaizes(deps, V) == deps

\* lines 84-95: every depth 0, the root set, and the queue list(nos_raiz);
\* a set of str is iterated in an order that changes from one process to the next
IdentificarRaizes ==
  /\ dou_pc = "raizes"
  /\ LET nos_raiz == {v \in VarSet : EhRaiz(v)} IN
       /\ profundidades' = [v \in VarSet |-> 0]
       /\ visitados' = nos_raiz
       /\ \E ordem \in Perms(nos_raiz) : fila' = ordem
  /\ var_dependencies' = DepsAposRaizes(var_dependencies, VarSet)
  /\ dou_pc' = "bfs"
  /\ UNCHANGED <<variaveis, frequencia, manual_coefficients, dou_erro,
                 mc_values, sc_values, hc_values, desvio2, dou_result, execucoes,
                 prof_anterior>>
  /\ UNCHANGED <<zhangVars, extVars, briandVars, varVars, clsVars, probVars, autoVars>>

\* mutant: the loop without the dependency test of lines 103-104
RECURSIVE VisitarTodos(_, _, _, _)
VisitarTodos(var_atual, prof_atual, i, st) ==
  IF i > Len(variaveis) THEN st
  ELSE LET var_dependente == variaveis[i]
           nova_prof == prof_atual + 1
       IN IF var_dependente \notin st.vis
            THEN VisitarTodos(var_atual, prof_atual, i + 1,
                   [prof |-> [st.prof EXCEPT ![var_dependente] = nova_prof],
                    vis |-> st.vis \cup {var_dependente},
                    fila |-> Append(st.fila, var_dependente)])
            ELSE VisitarTodos(var_atual, prof_atual, i + 1,
                   [st EXCEPT !.prof[var_dependente] =
                                 Max2(st.prof[var_dependente], nova_prof)])

\* lines 102-117: the for loop over self.variaveis for one dequeued variable,
\* from position i on; st = [prof, vis, fila]
RECURSIVE VisitarDependentes(_, _, _, _)
VisitarDependentes(var_atual, prof_atual, i, st) ==
  IF i > Len(variaveis) THEN st
  ELSE LET var_dependente == variaveis[i]
           nova_prof == prof_atual + 1
       IN IF /\ var_dependente \in DOMAIN var_dependencies
             /\ var_atual \in var_dependencies[var_dependente]
            THEN IF var_dependente \notin st.vis
                   THEN VisitarDependentes(var_atual, prof_atual, i + 1,
                          [prof |-> [st.prof EXCEPT ![var_dependente] = nova_prof],
                           vis |-> st.vis \cup {var_dependente},
                           fila |-> Append(st.fila, var_dependente)])
                   ELSE VisitarDependentes(var_atual, prof_atual, i + 1,
                          [st EXCEPT !.prof[var_dependente] =
                                        Max2(st.prof[var_dependente], nova_prof)])
            ELSE VisitarDependentes(var_atual, prof_atual, i + 1, st)

\* lines 97-117: one iteration of `while fila`
PassoBFS ==
  /\ dou_pc = "bfs"
  /\ fila # <<>>
  /\ LET var_atual == Head(fila)
         st == VisitarDependentes(var_atual, profundidades[var_atual], 1,
                 [prof |-> profundidades, vis |-> visitados, fila |-> Tail(fila)])
     IN /\ profundidades' = st.prof
        /\ visitados' = st.vis
        /\ fila' = st.fila
  /\ UNCHANGED <<variaveis, frequencia, manual_coefficients, var_dependencies, dou_pc,
                 dou_erro, mc_values, sc_values, hc_values, desvio2, dou_result,
                 execucoes, prof_anterior>>
  /\ UNCHANGED <<zhangVars, extVars, briandVars, varVars, clsVars, probVars, autoVars>>

\* lines 67-73: the queue is empty, the depths are returned and HC is filled in
CalcularHC ==
  /\ dou_pc = "bfs"
  /\ fila = <<>>
  /\ hc_values' = [v \in VarSet |-> HCde(profundidades[v])]
  /\ dou_pc' = "vrm"
  /\ UNCHANGED <<variaveis, frequencia, manual_coefficients, var_dependencies, dou_erro,
                 mc_values, sc_values, desvio2, profundidades, visitados, fila,
                 dou_result, execucoes, prof_anterior>>
  /\ UNCHANGED <<zhangVars, extVars, briandVars, varVars, clsVars, probVars, autoVars>>

\* lines 129-146: one entry of detalhado
DetalheDe(var) ==
  [variavel |-> var, xi |-> frequencia[var], mc |-> mc_values[var], sc |-> sc_values[var],
   hc |-> hc_values[var],
   acoplamento |-> SAdd(SAdd(SFromRat(mc_values[var]), sc_values[var]),
                        SFromRat(hc_values[var]))]

\* lines 121-153: totals and means; C_medio divides by self.n without a guard
CalcularAcoplamentoVRM ==
  /\ dou_pc = "vrm"
  /\ LET detalhado == [i \in 1..n_vars |-> DetalheDe(variaveis[i])]
         acoplamento_total == SSumSeq([i \in 1..n_vars |-> detalhado[i].acoplamento])
         sc_total == SSumSeq([i \in 1..n_vars |-> detalhado[i].sc])
         hc_total == RSumSeq([i \in 1..n_vars |-> detalhado[i].hc])
     IN IF n_vars = 0
          THEN /\ dou_pc' = "raised"
               /\ dou_erro' = "ZeroDivisionError"
               /\ UNCHANGED dou_result
          ELSE /\ dou_result' = <<[C_vrm |-> acoplamento_total,
                                   C_medio |-> SDivInt(acoplamento_total, n_vars),
                                   HC_medio |-> RDiv(hc_total, Rat(n_vars, 1)),
                                   SC_medio |-> SDivInt(sc_total, n_vars),
                                   detalhado |-> detalhado]>>
               /\ dou_pc' = "done"
               /\ UNCHANGED dou_erro
  /\ UNCHANGED <<variaveis, frequencia, manual_coefficients, var_dependencies, mc_values,
                 sc_values, hc_values, desvio2, profundidades, visitados, fila,
                 execucoes, prof_anterior>>
  /\ UNCHANGED <<zhangVars, extVars, briandVars, varVars, clsVars, probVars, autoVars>>

\* main() is run again on the unchanged input: a new AnalisadorDou is built
Reexecutar ==
  /\ dou_pc = "done"
  /\ execucoes = 1
  /\ execucoes' = 2
  /\ prof_anterior' = <<profundidades>>
  /\ dou_pc' = "inicio"
  /\ mc_values' = <<>>
  /\ sc_values' = <<>>
  /\ hc_values' = <<>>
  /\ profundidades' = <<>>
  /\ visitados' = {}
  /\ fila' = <<>>
  /\ dou_result' = <<>>
  /\ UNCHANGED <<variaveis, frequencia, manual_coefficients, var_dependencies, dou_erro,
                 desvio2>>
  /\ UNCHANGED <<zhangVars, extVars, briandVars, varVars, clsVars, probVars, autoVars>>

\* the inputs: up to MaxVars variables, up to MaxDeps dependency edges (no variable
\* depends on itself), the manual coefficients given for every variable or for none
InitDou ==
  /\ VarParado
  /\ ClsParado
  /\ ProbParado
  /\ AutoParado
  /\ ZhangParado
  /\ ExtParado
  /\ BriandParado
  /\ \E n \in 0..MaxVars :
       /\ variaveis = [i \in 1..n |-> i]
       /\ \E E \in SUBSET {e \in (1..n) \X (1..n) : e[1] # e[2]} :
            /\ Cardinality(E) <= MaxDeps
            /\ var_dependencies = DepsDict(E)
            /\ frequencia = FrequenciaDe(1..n, E)
       /\ \E S \in {{}, 1..n} : manual_coefficients = [v \in S |-> ROne]
  /\ dou_pc = "inicio"
  /\ dou_erro = "none"
  /\ mc_values = <<>>
  /\ sc_values = <<>>
  /\ hc_values = <<>>
  /\ desvio2 = RZero
  /\ profundidades = <<>>
  /\ visitados = {}
  /\ fila = <<>>
  /\ dou_result = <<>>
  /\ execucoes = 1
  /\ prof_anterior = <<>>

NextDou ==
  \/ CalcularMCSC
  \/ IdentificarRaizes
  \/ PassoBFS
  \/ CalcularHC
  \/ CalcularAcoplamentoVRM
  \/ Reexecutar

SpecDou == InitDou /\ [][NextDou]_vars

\* ============================== obter_matriz_adjacencia and AnalisadorZhang
Funcs == Range(funcoes)

n_funcs == Len(funcoes)

\* indice_map[f]: position of f in funcoes_ordenadas
IndiceDe(ordenadas, f) == CHOOSE i \in 1..Len(ordenadas) : ordenadas[i] = f

\* mutant: the increment lands on matriz[j][i]
MatrizDeTransposta(ordenadas, cham) ==
  [i \in 1..Len(ordenadas) |->
    [j \in 1..Len(ordenadas) |->
      IF ordenadas[j] \in DOMAIN cham /\ ordenadas[i] \in cham[ordenadas[j]] THEN 1 ELSE 0]]

\* main.py 132-147: one increment per (origem, destino) held in the sets of chamadas
MatrizDe(ordenadas, cham) ==
  [i \in 1..Len(ordenadas) |->
    [j \in 1..Len(ordenadas) |->
      IF ordenadas[i] \in DOMAIN cham /\ ordenadas[j] \in cham[ordenadas[i]] THEN 1 ELSE 0]]

ObterMatrizAdjacencia ==
  /\ zhang_pc = "inicio"
  /\ matriz_adjacencia' = MatrizDe(funcoes, chamadas)
  /\ zhang_pc' = "contar"
  /\ UNCHANGED <<funcoes, chamadas, probabilidades, zhang_erro, contagem, entropy,
                 julgamento>>
  /\ UNCHANGED <<douVars, extVars, briandVars, varVars, clsVars, probVars, autoVars>>

SomaLinha(m, i) == SumSeq([j \in 1..Len(m) |-> m[i][j]])

\* np.sum of the copy whose diagonal was filled with 0
SomaForaDiagonal(m) ==
  SumSeq([i \in 1..Len(m) |-> SumSeq([j \in 1..Len(m) |-> IF i = j THEN 0 ELSE m[i][j]])])

\* int(x / 2) for x >= 0
MetadeInt(x) == x \div 2

\* analisador_zhang.py 25-31
ContarAcoplas ==
  /\ zhang_pc = "contar"
  /\ contagem' = <<[M |-> MetadeInt(SomaForaDiagonal(matriz_adjacencia)),
                    M_diretos |-> SomaForaDiagonal(matriz_adjacencia),
                    graus |-> [i \in 1..n_funcs |-> SomaLinha(matriz_adjacencia, i)]]>>
  /\ zhang_pc' = "entropy"
  /\ UNCHANGED <<funcoes, chamadas, probabilidades, matriz_adjacencia, zhang_erro, entropy,
                 julgamento>>
  /\ UNCHANGED <<douVars, extVars, briandVars, varVars, clsVars, probVars, autoVars>>

\* an entropy term -coef * log10(arg), log10 kept symbolic; erro names the
\* exception its computation raised, if any
Termo(coef, arg) == [erro |-> "none", coef |-> coef, arg |-> arg]

TermoErro(e) == [erro |-> e, coef |-> RZero, arg |-> ROne]

\* termo = 0.0
TermoZero == Termo(RZero, ROne)

\* mutant: the guard on ni and M is lost
TermoDeSemGuarda(ni, pi, M) ==
  IF pi.num > 0
    THEN IF 2 * M = 0 THEN TermoErro("ZeroDivisionError")
         ELSE IF ni <= 0 THEN TermoErro("ValueError")
         ELSE Termo(RDiv(RMul(Rat(ni, 1), pi), Rat(2 * M, 1)), Rat(ni, 2 * M))
    ELSE TermoZero

\* lines 42-47 for one function: ni, pi and M decide the term. Past the guard,
\* a float division by 2 * M = 0 raises ZeroDivisionError and math.log10 of a
\* value <= 0 raises ValueError.
TermoDe(ni, pi, M) ==
  IF ni > 0 /\ pi.num > 0 /\ M > 0
    THEN IF 2 * M = 0 THEN TermoErro("ZeroDivisionError")
         ELSE IF ni <= 0 THEN TermoErro("ValueError")
         ELSE Termo(RDiv(RMul(Rat(ni, 1), pi), Rat(2 * M, 1)), Rat(ni, 2 * M))
    ELSE TermoZero

\* sign of -coef * log10(arg): log10(x) < 0 exactly when x < 1
SinalTermo(t) ==
  IF t.coef.num = 0 \/ REq(t.arg, ROne) THEN 0
  ELSE IF RLt(t.arg, ROne) THEN (IF t.coef.num > 0 THEN 1 ELSE -1)
  ELSE (IF t.coef.num > 0 THEN -1 ELSE 1)

\* self.probabilidades[funcao] raises KeyError for a function without an entry
TemProb(f) == f \in DOMAIN probabilidades

\* what iteration i of the loop of lines 38-54 raises, or "none"
ErroEntropy(i) ==
  IF ~TemProb(funcoes[i]) THEN "KeyError"
  ELSE TermoDe(contagem[1].graus[i], probabilidades[funcoes[i]], contagem[1].M).erro

\* analisador_zhang.py 33-63; H_entropy is the sequence of the non-zero-branch
\* terms added to H_total (0.0 when empty); H_normalized is
\* min(1, H / (n log10 n)) when n > 1 and 0.0 otherwise
CalcularEntropyModel ==
  /\ zhang_pc = "entropy"
  /\ IF \E i \in 1..n_funcs : ErroEntropy(i) # "none"
       THEN /\ zhang_erro' = ErroEntropy(CHOOSE i \in 1..n_funcs :
                                /\ ErroEntropy(i) # "none"
                                /\ \A k \in 1..(i - 1) : ErroEntropy(k) = "none")
            /\ zhang_pc' = "raised"
            /\ UNCHANGED entropy
       ELSE LET M == contagem[1].M
                det == [i \in 1..n_funcs |->
                          [funcao |-> funcoes[i], ni |-> contagem[1].graus[i],
                           pi |-> probabilidades[funcoes[i]],
                           termo |-> TermoDe(contagem[1].graus[i],
                                             probabilidades[funcoes[i]], M)]]
                somados == SelectSeq(det, LAMBDA d : d.termo # TermoZero)
            IN /\ entropy' = <<[H_entropy |-> [k \in 1..Len(somados) |-> somados[k].termo],
                                detalhado |-> det,
                                H_normalized |-> [limitado |-> n_funcs > 1, n |-> n_funcs]]>>
               /\ zhang_pc' = "judgment"
               /\ UNCHANGED zhang_erro
  /\ UNCHANGED <<funcoes, chamadas, probabilidades, matriz_adjacencia, contagem, julgamento>>
  /\ UNCHANGED <<douVars, extVars, briandVars, varVars, clsVars, probVars, autoVars>>

\* mutant: a pair without an edge gets 0 instead of 1
JulgamentoDeZeros(m) ==
  [i \in 1..Len(m) |->
    [j \in 1..Len(m) |->
      IF i = j THEN ROne
      ELSE IF m[i][j] > 0
             THEN (IF SomaLinha(m, i) > 0 THEN Rat(m[i][j], SomaLinha(m, i)) ELSE ROne)
             ELSE RZero]]

\* mutant: the edge weight is not divided by the row sum
JulgamentoDeSemDividir(m) ==
  [i \in 1..Len(m) |->
    [j \in 1..Len(m) |->
      IF i = j THEN ROne ELSE IF m[i][j] > 0 THEN Rat(m[i][j], 1) ELSE ROne]]

\* lines 75-91: the judgment matrix
JulgamentoDe(m) ==
  [i \in 1..Len(m) |->
    [j \in 1..Len(m) |->
      IF i = j THEN ROne
      ELSE IF m[i][j] > 0
             THEN (IF SomaLinha(m, i) > 0 THEN Rat(m[i][j], SomaLinha(m, i)) ELSE ROne)
             ELSE ROne]]

SomaLinhaA(A, i) == RSumSeq([j \in 1..Len(A) |-> A[i][j]])

RMin(S) == CHOOSE x \in S : \A y \in S : RLe(x, y)

RMax(S) == CHOOSE x \in S : \A y \in S : RLe(y, x)

\* Dominant eigenpair of a matrix whose entries are all positive (n >= 1), as
\* np.linalg.eig + argmax of the real parts finds it: the Perron root lies between
\* the least and the greatest row sum and its eigenvector, divided by its sum, is
\* positive and sums to 1. When every row has the same sum r the pair is exactly
\* (r, uniform); otherwise only the bounds are kept.
AutoPar(A) ==
  LET somas == {SomaLinhaA(A, i) : i \in 1..Len(A)}
  IN [lambda_lo |-> RMin(somas), lambda_hi |-> RMax(somas),
      uniforme |-> Cardinality(somas) = 1]

\* lines 105-112: C_total / n with W the normalised dominant eigenvector; the
\* sum of pi * wi * soma_linha is a weighted mean of pi * soma_linha, exact when W
\* is uniform
CJulgamentoDe(A, par) ==
  LET n == Len(A)
      prod(i) == RMul(probabilidades[funcoes[i]], SomaLinhaA(A, i))
  IN IF par.uniforme
       THEN LET c == RDiv(RMul(RSumSeq([i \in 1..n |-> prod(i)]), Rat(1, n)), Rat(n, 1))
            IN [lo |-> c, hi |-> c]
       ELSE [lo |-> RDiv(RMin({prod(i) : i \in 1..n}), Rat(n, 1)),
             hi |-> RDiv(RMax({prod(i) : i \in 1..n}), Rat(n, 1))]

\* A . v
MatVec(A, v) == [i \in 1..Len(A) |-> RSumSeq([j \in 1..Len(A) |-> RMul(A[i][j], v[j])])]

RECURSIVE Potencia(_, _, _)
Potencia(A, v, k) == IF k = 0 THEN v ELSE Potencia(A, MatVec(A, v), k - 1)

\* v_max, the dominant eigenvector as np.linalg.eig returns it: a multiple, of
\* either sign, of the positive Perron vector, which A^k . 1 approaches (and
\* equals when every row of A has the same sum)
VMax(A, sinal) ==
  LET v == Potencia(A, [i \in 1..Len(A) |-> ROne], MaxPotencia)
  IN [i \in 1..Len(A) |-> RMul(Rat(sinal, 1), v[i])]

\* mutant: the vector divided by its greatest component
NormalizarPeloMaior(v_max) ==
  LET m == CHOOSE x \in Range(v_max) :
             \A y \in Range(v_max) : RLe(RMul(y, y), RMul(x, x))
  IN [i \in 1..Len(v_max) |-> RDiv(v_max[i], m)]

\* line 99: W = v_max / np.sum(v_max)
Normalizar(v_max) == [i \in 1..Len(v_max) |-> RDiv(v_max[i], RSumSeq(v_max))]

\* mutant: an except branch that leaves the judgment coupling at 1
JulgamentoFallbackSemZerar(A) ==
  [matriz_julgamento |-> A, lambda_max |-> [lo |-> RZero, hi |-> RZero],
   sorting_vector |-> [uniforme |-> TRUE, n |-> Len(A)],
   C_judgment |-> [lo |-> ROne, hi |-> ROne], excecao |-> TRUE,
   W |-> [i \in 1..Len(A) |-> Rat(1, Len(A))]]

\* lines 114-117: the except branch
JulgamentoFallback(A) ==
  [matriz_julgamento |-> A, lambda_max |-> [lo |-> RZero, hi |-> RZero],
   sorting_vector |-> [uniforme |-> TRUE, n |-> Len(A)],
   C_judgment |-> [lo |-> RZero, hi |-> RZero], excecao |-> TRUE,
   W |-> [i \in 1..Len(A) |-> Rat(1, Len(A))]]

\* analisador_zhang.py 74-117. With no function np.max of the empty eigenvalue
\* array raises inside the try; a missing probability raises KeyError inside it.
CalcularJudgmentMatrixModel ==
  /\ zhang_pc = "judgment"
  /\ LET A == JulgamentoDe(matriz_adjacencia)
     IN IF n_funcs = 0 \/ \E i \in 1..n_funcs : ~TemProb(funcoes[i])
          THEN julgamento' = <<JulgamentoFallback(A)>>
          ELSE LET par == AutoPar(A)
               IN \E sinal \in {-1, 1} :
                    julgamento' = <<[matriz_julgamento |-> A,
                                     lambda_max |-> [lo |-> par.lambda_lo, hi |-> par.lambda_hi],
                                     sorting_vector |-> [uniforme |-> par.uniforme, n |-> n_funcs],
                                     C_judgment |-> CJulgamentoDe(A, par),
                                     excecao |-> FALSE,
                                     W |-> Normalizar(VMax(A, sinal))]>>
  /\ zhang_pc' = "done"
  /\ UNCHANGED <<funcoes, chamadas, probabilidades, matriz_adjacencia, zhang_erro, contagem,
                 entropy>>
  /\ UNCHANGED <<douVars, extVars, briandVars, varVars, clsVars, probVars, autoVars>>

\* the probability map of main() is 0.5 for every function; up to MaxOverrides
\* entries are then set to 0, set to 1, or absent from the map.
\* the inputs: up to MaxFuncs functions, up to MaxEdges caller -> callee pairs (never
\* a function to itself), as _analisar_chamadas leaves them in chamadas
InitZhang ==
  /\ VarParado
  /\ ClsParado
  /\ ProbParado
  /\ AutoParado
  /\ DouParado
  /\ ExtParado
  /\ BriandParado
  /\ \E n \in 0..MaxFuncs :
       /\ funcoes = [i \in 1..n |-> i]
       /\ \E E \in SUBSET {e \in (1..n) \X (1..n) : e[1] # e[2]} :
            /\ Cardinality(E) <= MaxEdges
            /\ chamadas = DepsDict(E)
       /\ \E S \in {T \in SUBSET (1..n) : Cardinality(T) <= MaxOverrides} :
            \E o \in [S -> {"zero", "um", "ausente"}] :
               probabilidades =
                 [f \in (1..n) \ {g \in S : o[g] = "ausente"} |->
                    IF f \in S THEN (IF o[f] = "zero" THEN RZero ELSE ROne) ELSE Rat(1, 2)]
  /\ matriz_adjacencia = <<>>
  /\ zhang_pc = "inicio"
  /\ zhang_erro = "none"
  /\ contagem = <<>>
  /\ entropy = <<>>
  /\ julgamento = <<>>

NextZhang ==
  \/ ObterMatrizAdjacencia
  \/ ContarAcoplas
  \/ CalcularEntropyModel
  \/ CalcularJudgmentMatrixModel

SpecZhang == InitZhang /\ [][NextZhang]_vars

\* one scoring component is built on the graph it is given: either of the two
InitSnapshots == InitDou \/ InitZhang

NextSnapshots == NextDou \/ NextZhang

SpecSnapshots == InitSnapshots /\ [][NextSnapshots]_vars


\* =========================================================== ExtratorCodigo
\* Names are sequences of one-character strings.
Modulos == {<<"m">>, <<"n">>}

NomesLocais == {<<"f">>, <<"g">>, <<"f", "g">>}

\* what _extrair_nome_chamada returns for a call: the identifier or attribute
\* called (here also the name of a module), or None (the empty sequence) for a
\* call whose func is neither a Name nor an Attribute
NomesChamados == NomesLocais \cup {<<"m">>, <<>>}

\* code points, for the order sorted() puts strings in
Codigo(c) == CASE c = "." -> 46 [] c = "f" -> 102 [] c = "g" -> 103
               [] c = "m" -> 109 [] c = "n" -> 110

RECURSIVE LexMenor(_, _)
LexMenor(s, t) ==
  IF s = <<>> THEN t # <<>>
  ELSE IF t = <<>> THEN FALSE
  ELSE IF Codigo(Head(s)) # Codigo(Head(t)) THEN Codigo(Head(s)) < Codigo(Head(t))
  ELSE LexMenor(Tail(s), Tail(t))

\* sorted(S) for a set of distinct strings
Ordenado(S) ==
  CHOOSE q \in Perms(S) : \A i \in 1..(Cardinality(S) - 1) : LexMenor(q[i], q[i + 1])

\* t in s
Contem(s, t) == \E i \in 0..(Len(s) - Len(t)) : SubSeq(s, i + 1, i + Len(t)) = t

\* s.endswith(t)
TerminaCom(s, t) == Len(t) <= Len(s) /\ SubSeq(s, Len(s) - Len(t) + 1, Len(s)) = t

\* line 95: funcao_chamada in nome_alvo or nome_alvo.endswith(funcao_chamada)
Casa(funcao_chamada, nome_alvo) ==
  Contem(nome_alvo, funcao_chamada) \/ TerminaCom(nome_alvo, funcao_chamada)

\* line 71: f"{modulo}.{node.name}"
NomeQualificado(d) == d.modulo \o <<".">> \o d.nome

Chaves(itens) == [i \in 1..Len(itens) |-> itens[i].chave]

\* self.funcoes[chave] = valor on a dict kept as the sequence of its items: a new
\* key goes last, an existing key keeps its place and takes the new value
DictSet(itens, chave, valor) ==
  IF \E i \in 1..Len(itens) : itens[i].chave = chave
    THEN [i \in 1..Len(itens) |->
            IF itens[i].chave = chave THEN [chave |-> chave, node |-> valor] ELSE itens[i]]
    ELSE Append(itens, [chave |-> chave, node |-> valor])

\* mutant: the traversal ends at the first file that does not parse
RECURSIVE FuncoesDeAbortando(_, _, _)
FuncoesDeAbortando(defs, k, itens) ==
  IF k > Len(defs) THEN itens
  ELSE IF ~defs[k].parseia THEN itens
  ELSE FuncoesDeAbortando(defs, k + 1, DictSet(itens, NomeQualificado(defs[k]), k))

\* lines 53-77 over the definitions from position k on; the definitions of a
\* file whose ast.parse raises are never seen (lines 61-64: continue)
RECURSIVE FuncoesDe(_, _, _)
FuncoesDe(defs, k, itens) ==
  IF k > Len(defs) THEN itens
  ELSE IF ~defs[k].parseia THEN FuncoesDe(defs, k + 1, itens)
  ELSE FuncoesDe(defs, k + 1, DictSet(itens, NomeQualificado(defs[k]), k))

EncontrarFuncoes ==
  /\ ext_pc = "inicio"
  /\ ext_funcoes' = FuncoesDe(fonte, 1, <<>>)
  /\ ext_pc' = "chamadas"
  /\ UNCHANGED fonte
  /\ UNCHANGED <<douVars, zhangVars, briandVars, varVars, clsVars, probVars, autoVars>>

\* lines 94-95 without the test of line 96
AlvosDeComLaco(nome_func, funcao_chamada, itens) ==
  IF funcao_chamada = <<>> THEN {}
  ELSE {itens[i].chave : i \in {k \in 1..Len(itens) : Casa(funcao_chamada, itens[k].chave)}}

\* lines 94-97 for one call of nome_func: the targets added to its set
AlvosDe(nome_func, funcao_chamada, itens) ==
  IF funcao_chamada = <<>> THEN {}
  ELSE {itens[i].chave : i \in {k \in 1..Len(itens) :
                                   /\ Casa(funcao_chamada, itens[k].chave)
                                   /\ itens[k].chave # nome_func}}

\* lines 86-97: self.chamadas, a defaultdict(set) that gets a key with the first add
ChamadasDe(defs, itens) ==
  LET alvos(i) == UNION {AlvosDe(itens[i].chave, defs[itens[i].node].chamadas[c], itens) :
                           c \in 1..Len(defs[itens[i].node].chamadas)}
      comAlvo == {i \in 1..Len(itens) : alvos(i) # {}}
  IN [f \in {itens[i].chave : i \in comAlvo} |->
        alvos(CHOOSE i \in 1..Len(itens) : itens[i].chave = f)]

AnalisarChamadas ==
  /\ ext_pc = "chamadas"
  /\ chamadas' = ChamadasDe(fonte, ext_funcoes)
  /\ ext_pc' = "main"
  /\ UNCHANGED <<fonte, ext_funcoes>>
  /\ UNCHANGED <<funcoes, probabilidades, matriz_adjacencia, zhang_pc, zhang_erro,
                 contagem, entropy, julgamento>>
  /\ UNCHANGED <<douVars, briandVars, varVars, clsVars, probVars, autoVars>>

\* main.py 203-221: exit when no function was found; otherwise the functions
\* sorted by qualified name and the default probability 0.5 for each
PrepararZhang ==
  /\ ext_pc = "main"
  /\ IF ext_funcoes = <<>>
       THEN /\ ext_pc' = "exit"
            /\ UNCHANGED <<funcoes, probabilidades, zhang_pc>>
       ELSE /\ funcoes' = Ordenado(Range(Chaves(ext_funcoes)))
            /\ probabilidades' = [f \in Range(Chaves(ext_funcoes)) |-> Rat(1, 2)]
            /\ zhang_pc' = "inicio"
            /\ ext_pc' = "done"
  /\ UNCHANGED <<fonte, ext_funcoes>>
  /\ UNCHANGED <<chamadas, matriz_adjacencia, zhang_erro, contagem, entropy, julgamento>>
  /\ UNCHANGED <<douVars, briandVars, varVars, clsVars, probVars, autoVars>>

\* the definitions of one module are contiguous in the traversal, and a file
\* parses as a whole or not at all
Contiguo(defs) ==
  \A i, j \in 1..Len(defs) :
     (i < j /\ defs[i].modulo = defs[j].modulo) =>
        /\ \A k \in i..j : defs[k].modulo = defs[i].modulo
        /\ defs[i].parseia = defs[j].parseia

SeqAte(S, n) == UNION {[1..k -> S] : k \in 0..n}

\* the project: up to MaxDefs function definitions with up to MaxCalls calls in all
InitExtrator ==
  /\ VarParado
  /\ ClsParado
  /\ ProbParado
  /\ AutoParado
  /\ DouParado
  /\ BriandParado
  /\ \E cab \in SeqAte(Modulos \X NomesLocais \X BOOLEAN, MaxDefs) :
       \E sitios \in SeqAte((1..Len(cab)) \X NomesChamados, MaxCalls) :
          /\ \A k \in 1..(Len(sitios) - 1) : sitios[k][1] <= sitios[k + 1][1]
          /\ fonte = [i \in 1..Len(cab) |->
                        [modulo |-> cab[i][1], nome |-> cab[i][2], parseia |-> cab[i][3],
                         chamadas |-> LET meus == SelectSeq(sitios, LAMBDA x : x[1] = i)
                                      IN [k \in 1..Len(meus) |-> meus[k][2]]]]
          /\ Contiguo(fonte)
  /\ ext_funcoes = <<>>
  /\ ext_pc = "inicio"
  /\ funcoes = <<>>
  /\ chamadas = <<>>
  /\ probabilidades = <<>>
  /\ matriz_adjacencia = <<>>
  /\ zhang_pc = "parado"
  /\ zhang_erro = "none"
  /\ contagem = <<>>
  /\ entropy = <<>>
  /\ julgamento = <<>>

NextExtrator ==
  \/ EncontrarFuncoes
  \/ AnalisarChamadas
  \/ PrepararZhang
  \/ ObterMatrizAdjacencia

SpecExtrator == InitExtrator /\ [][NextExtrator]_vars

\* ========================================================= CouplingAnalyzer
\* A source is the sequence of its ast.Call nodes in visiting order. Each node has
\* the enclosing function (NoFunc at module level), whether node.func is an
\* ast.Name, the name called and the names of the positional arguments.
NoFunc == "None"

Chamadores == {NoFunc, "mmc", "mdc"}

Chamados == {"mdc"}

\* argument names; "BinOp" is the ast.dump text of an argument that is not a Name
Dados == {"a", "b", "BinOp"}

CallNodes ==
  [funcao : Chamadores, func_nome : BOOLEAN, chamada : Chamados,
   args : SeqAte(Dados, MaxArgs)]

\* lines 58-75: visitor.calls, the calls made inside a function through a plain name
VisitorCalls(source) ==
  LET rec == SelectSeq(source, LAMBDA nd : nd.funcao # NoFunc /\ nd.func_nome)
  IN [k \in 1..Len(rec) |-> [src |-> rec[k].funcao, tgt |-> rec[k].chamada,
                             args |-> rec[k].args]]

Ocorrencias(args, d) == Cardinality({k \in 1..Len(args) : args[k] = d})

\* lines 97-100: data_usage_count[name] over the calls given
DataUsageCount(calls, d) == SumSeq([k \in 1..Len(calls) |-> Ocorrencias(calls[k].args, d)])

\* lines 27-30
ComputeValue(ec) == [ec EXCEPT !.value = ec.C * ec.PC * ec.N]

\* lines 118-148: C[d] = PC[d] = 1.0
BuildEcFromCall(src, tgt, data_name, N_d) ==
  [source |-> src, target |-> tgt, data_name |-> data_name, C |-> 1, PC |-> 1,
   N |-> N_d, value |-> 0]

\* lines 103-108 for the calls from position k on
RECURSIVE EcsDe(_, _)
EcsDe(calls, k) ==
  IF k > Len(calls) THEN <<>>
  ELSE [a \in 1..Len(calls[k].args) |->
          ComputeValue(BuildEcFromCall(calls[k].src, calls[k].tgt, calls[k].args[a],
                                       DataUsageCount(calls, calls[k].args[a])))]
       \o EcsDe(calls, k + 1)

\* lines 87-108
AnalyzeSource ==
  /\ analises < MaxSources
  /\ \E source \in SeqAte(CallNodes, MaxCallNodes) :
       LET calls == VisitorCalls(source)
       IN /\ elementary' = elementary \o EcsDe(calls, 1)
          /\ vistas' = vistas \o calls
  /\ analises' = analises + 1
  /\ UNCHANGED <<douVars, zhangVars, extVars, varVars, clsVars, probVars, autoVars>>

\* mutant: a coupling is also filed under the function it calls
AggregateByModuleComAlvos ==
  [m \in {elementary[k].source : k \in 1..Len(elementary)}
            \cup {elementary[k].target : k \in 1..Len(elementary)} |->
     [element |-> m,
      elementary |-> SelectSeq(elementary, LAMBDA ec : ec.source = m \/ ec.target = m)]]

\* lines 150-161: the dict aggregate_by_module returns, one ModuleCoupling for
\* each key that results[key] was evaluated for
AggregateByModule ==
  [m \in {elementary[k].source : k \in 1..Len(elementary)} |->
     [element |-> m, elementary |-> SelectSeq(elementary, LAMBDA ec : ec.source = m)]]

\* lines 43-45: ModuleCoupling.total_coupling
TotalCouplingDe(mc) == SumSeq([k \in 1..Len(mc.elementary) |-> mc.elementary[k].value])

\* mutant: the couplings of every source summed into m
TotalCouplingTodos(m) == SumSeq([k \in 1..Len(elementary) |-> elementary[k].value])

\* lines 150-161 and 43-45: aggregate_by_module()[m].total_coupling, the sum of
\* the values of the couplings whose source is m
TotalCoupling(m) ==
  LET meus == SelectSeq(elementary, LAMBDA ec : ec.source = m)
  IN SumSeq([k \in 1..Len(meus) |-> meus[k].value])

InitBriand ==
  /\ VarParado
  /\ ClsParado
  /\ ProbParado
  /\ AutoParado
  /\ DouParado
  /\ ZhangParado
  /\ ExtParado
  /\ elementary = <<>>
  /\ vistas = <<>>
  /\ analises = 0

NextBriand == AnalyzeSource

SpecBriand == InitBriand /\ [][NextBriand]_vars

\* ============================ ExtratorCodigo: variables and dependencies
\* A function body is the sequence of its statements; a statement is an
\* ast.Assign with one target and the Names of its value, or an expression
\* statement with the Names it reads. Names are sequences of characters.
NomesVar == {<<"a", "a">>, <<"b", "b">>, <<"x">>, <<"l", "e", "n">>}

\* the names of lines 15-37 that are in NomesVar
BUILT_INS == {<<"l", "e", "n">>}

\* a target that is not an ast.Name (attribute, subscript, tuple)
NaoNome == <<>>

FuncoesVar == <<<<"m", ".", "f">>, <<"m", ".", "g">>>>

Stmts ==
  [tipo : {"Assign"}, alvo : NomesVar \cup {NaoNome}, nomes : SeqAte(NomesVar, MaxNomes)]
  \cup [tipo : {"Expr"}, alvo : {NaoNome}, nomes : SeqAte(NomesVar, MaxNomes)]

\* s.startswith(t)
ComecaCom(s, t) == Len(t) <= Len(s) /\ SubSeq(s, 1, Len(t)) = t

\* lines 106-114
EhVariavelValida(nome_var) ==
  IF nome_var \in BUILT_INS THEN FALSE
  ELSE IF ComecaCom(nome_var, <<"_", "_">>) /\ TerminaCom(nome_var, <<"_", "_">>) THEN FALSE
  ELSE IF Len(nome_var) <= 1 THEN FALSE
  ELSE TRUE

\* f"{nome_func}::{var_nome}"
NomeCompleto(nome_func, var_nome) == nome_func \o <<":", ":">> \o var_nome

\* positions where "::" starts in s
Separadores(s) == {i \in 1..(Len(s) - 1) : s[i] = ":" /\ s[i + 1] = ":"}

\* s.split("::")[0]
SplitPrimeiro(s) ==
  IF Separadores(s) = {} THEN s
  ELSE SubSeq(s, 1, (CHOOSE i \in Separadores(s) : \A j \in Separadores(s) : i <= j) - 1)

\* s.split("::")[-1]
SplitUltimo(s) ==
  IF Separadores(s) = {} THEN s
  ELSE SubSeq(s, (CHOOSE i \in Separadores(s) : \A j \in Separadores(s) : j <= i) + 2, Len(s))

\* the ids of the ast.Name nodes of a statement
NomesDoStmt(st) ==
  (IF st.tipo = "Assign" /\ st.alvo # NaoNome THEN <<st.alvo>> ELSE <<>>) \o st.nomes

RECURSIVE NomesDoCorpo(_)
NomesDoCorpo(stmts) ==
  IF stmts = <<>> THEN <<>> ELSE NomesDoStmt(Head(stmts)) \o NomesDoCorpo(Tail(stmts))

\* lines 121-136: var_freq, keyed by the qualified variable name
VarFreq(itens) ==
  LET chaves == UNION {{NomeCompleto(itens[f].chave, id) :
                          id \in {x \in Range(NomesDoCorpo(itens[f].stmts)) :
                                    EhVariavelValida(x)}} : f \in 1..Len(itens)}
      freq(v) == SumSeq([f \in 1..Len(itens) |->
                           SumSeq([k \in 1..Len(NomesDoCorpo(itens[f].stmts)) |->
                                     IF NomeCompleto(itens[f].chave,
                                                     NomesDoCorpo(itens[f].stmts)[k]) = v
                                        /\ EhVariavelValida(NomesDoCorpo(itens[f].stmts)[k])
                                       THEN 1 ELSE 0])])
  IN [v \in chaves |-> freq(v)]

\* lines 116-145
ExtrairVariaveis ==
  /\ var_pc = "inicio"
  /\ ext_variaveis' =
       [v \in DOMAIN VarFreq(corpos) |->
          [nome |-> SplitUltimo(v), funcao |-> SplitPrimeiro(v),
           frequencia |-> VarFreq(corpos)[v]]]
  /\ var_pc' = "dependencias"
  /\ UNCHANGED <<corpos, ext_var_dependencies>>
  /\ UNCHANGED <<douVars, zhangVars, extVars, briandVars, clsVars, probVars, autoVars>>

\* mutant: lines 164-186 without the test of line 185
ArestasDoAssignComLaco(nome_func, st, tabela) ==
  LET vars_atribuidas ==
        IF st.alvo # NaoNome /\ EhVariavelValida(st.alvo)
          THEN {NomeCompleto(nome_func, st.alvo)} ELSE {}
      vars_usadas ==
        {NomeCompleto(nome_func, id) : id \in {x \in Range(st.nomes) : EhVariavelValida(x)}}
          \cap DOMAIN tabela
  IN {<<a, b>> : a \in vars_atribuidas \cap DOMAIN tabela, b \in vars_usadas}

\* lines 164-186 for one ast.Assign of nome_func: the pairs
\* <<var_atribuida, var_usada>> added to self.var_dependencies
ArestasDoAssign(nome_func, st, tabela) ==
  LET vars_atribuidas ==
        IF st.alvo # NaoNome /\ EhVariavelValida(st.alvo)
          THEN {NomeCompleto(nome_func, st.alvo)} ELSE {}
      vars_usadas ==
        {NomeCompleto(nome_func, id) : id \in {x \in Range(st.nomes) : EhVariavelValida(x)}}
          \cap DOMAIN tabela
  IN {e \in {<<a, b>> : a \in vars_atribuidas \cap DOMAIN tabela, b \in vars_usadas} :
        e[1] # e[2]}

\* lines 156-186
AnalisarDependenciasVariaveis ==
  /\ var_pc = "dependencias"
  /\ ext_var_dependencies' =
       DepsDict(UNION {ArestasDoAssign(corpos[f].chave, corpos[f].stmts[k], ext_variaveis) :
                         <<f, k>> \in {<<g, j>> \in (1..Len(corpos)) \X (1..MaxStmts) :
                                         /\ j <= Len(corpos[g].stmts)
                                         /\ corpos[g].stmts[j].tipo = "Assign"}})
  /\ var_pc' = "done"
  /\ UNCHANGED <<corpos, ext_variaveis>>
  /\ UNCHANGED <<douVars, zhangVars, extVars, briandVars, clsVars, probVars, autoVars>>

\* up to two functions with up to MaxStmts statements in all
InitVariaveis ==
  /\ DouParado
  /\ ZhangParado
  /\ ExtParado
  /\ BriandParado
  /\ ClsParado
  /\ ProbParado
  /\ AutoParado
  /\ \E n \in 0..Len(FuncoesVar) :
       \E linhas \in SeqAte((1..n) \X Stmts, MaxStmts) :
          /\ \A k \in 1..(Len(linhas) - 1) : linhas[k][1] <= linhas[k + 1][1]
          /\ corpos = [f \in 1..n |->
                         [chave |-> FuncoesVar[f],
                          stmts |-> LET minhas == SelectSeq(linhas, LAMBDA x : x[1] = f)
                                    IN [k \in 1..Len(minhas) |-> minhas[k][2]]]]
  /\ ext_variaveis = <<>>
  /\ ext_var_dependencies = <<>>
  /\ var_pc = "inicio"

NextVariaveis ==
  \/ ExtrairVariaveis
  \/ AnalisarDependenciasVariaveis

SpecVariaveis == InitVariaveis /\ [][NextVariaveis]_vars

\* ================================================== classificacao_acoplamento
\* The two classifiers as functions of the value they read, applied to the
\* hundredths between -MaxCentesimos/100 and MaxCentesimos/100.
Baixo == "Baixo acoplamento"

Moderado == "Acoplamento moderado"

Alto == "Alto acoplamento"

\* mutant: the boundary values counted in the lower class
ClasseZhangInclusiva(H_entropy) ==
  IF RLe(H_entropy, Rat(33, 100)) THEN Baixo
  ELSE IF RLe(H_entropy, Rat(66, 100)) THEN Moderado
  ELSE Alto

\* analisador_zhang.py 65-72
ClasseZhang(H_entropy) ==
  IF RLt(H_entropy, Rat(33, 100)) THEN Baixo
  ELSE IF RLt(H_entropy, Rat(66, 100)) THEN Moderado
  ELSE Alto

\* analisador_automatico13.py 409-416
ClasseDou13(C_vrm) ==
  IF RLt(C_vrm, Rat(2, 1)) THEN Baixo
  ELSE IF RLt(C_vrm, Rat(5, 1)) THEN Moderado
  ELSE Alto

ClassificacaoZhang ==
  /\ cls_modelo = "zhang"
  /\ cls_classe = "none"
  /\ cls_classe' = ClasseZhang(cls_valor)
  /\ UNCHANGED <<cls_modelo, cls_valor>>
  /\ UNCHANGED <<douVars, zhangVars, extVars, briandVars, varVars, probVars, autoVars>>

ClassificacaoDou13 ==
  /\ cls_modelo = "dou13"
  /\ cls_classe = "none"
  /\ cls_classe' = ClasseDou13(cls_valor)
  /\ UNCHANGED <<cls_modelo, cls_valor>>
  /\ UNCHANGED <<douVars, zhangVars, extVars, briandVars, varVars, probVars, autoVars>>

InitClassificacao ==
  /\ DouParado
  /\ ZhangParado
  /\ ExtParado
  /\ BriandParado
  /\ VarParado
  /\ ProbParado
  /\ AutoParado
  /\ cls_modelo \in {"zhang", "dou13"}
  /\ \E k \in (-MaxCentesimos)..MaxCentesimos : cls_valor = Rat(k, 100)
  /\ cls_classe = "none"

NextClassificacao ==
  \/ ClassificacaoZhang
  \/ ClassificacaoDou13

SpecClassificacao == InitClassificacao /\ [][NextClassificacao]_vars

\* ============================================ main.solicitar_probabilidades
\* A float: a rational, or nan.
Flt(r) == [nan |-> FALSE, r |-> r]

NaN == [nan |-> TRUE, r |-> RZero]

\* x < y on floats: every comparison with nan is False
FltLt(x, y) == ~x.nan /\ ~y.nan /\ RLt(x.r, y.r)

\* the texts between the commas of a line, already stripped
Textos == {"0", "1", "2", "3", "0.25", "1.5", "-0.1", "nan", "x"}

\* int(texto): the integer, or ValueError
IntDe(texto) ==
  CASE texto = "0" -> [ok |-> TRUE, v |-> 0]
    [] texto = "1" -> [ok |-> TRUE, v |-> 1]
    [] texto = "2" -> [ok |-> TRUE, v |-> 2]
    [] texto = "3" -> [ok |-> TRUE, v |-> 3]
    [] OTHER -> [ok |-> FALSE, v |-> 0]

\* float(texto): the float, or ValueError
FloatDe(texto) ==
  CASE texto = "0" -> [ok |-> TRUE, v |-> Flt(Rat(0, 1))]
    [] texto = "1" -> [ok |-> TRUE, v |-> Flt(Rat(1, 1))]
    [] texto = "2" -> [ok |-> TRUE, v |-> Flt(Rat(2, 1))]
    [] texto = "3" -> [ok |-> TRUE, v |-> Flt(Rat(3, 1))]
    [] texto = "0.25" -> [ok |-> TRUE, v |-> Flt(Rat(1, 4))]
    [] texto = "1.5" -> [ok |-> TRUE, v |-> Flt(Rat(3, 2))]
    [] texto = "-0.1" -> [ok |-> TRUE, v |-> Flt(Rat(-1, 10))]
    [] texto = "nan" -> [ok |-> TRUE, v |-> NaN]
    [] OTHER -> [ok |-> FALSE, v |-> NaN]

\* a line is entrada.split(','); the two lines that end the loop
LinhaVazia == <<"">>

LinhaPronto == <<"pronto">>

EhFim(partes) == partes = LinhaVazia \/ partes = LinhaPronto

Linhas == UNION {[1..k -> Textos] : k \in 1..MaxPartes}

\* main.py 49: prob < 0 or prob > 1
ForaDoIntervalo(prob) == FltLt(prob, Flt(RZero)) \/ FltLt(Flt(ROne), prob)

\* main.py 40-58: the body of the try block and its except clause, for one line
AposLinha(probs, partes, fs) ==
  LET idx == IntDe(partes[1])
  IN IF ~idx.ok THEN probs                                   \* ValueError
     ELSE IF Len(partes) < 2 THEN probs                      \* IndexError
     ELSE LET prob == FloatDe(partes[2])
          IN IF ~prob.ok THEN probs                          \* ValueError
             ELSE IF idx.v < 1 \/ idx.v > Len(fs) THEN probs
             ELSE IF ForaDoIntervalo(prob.v) THEN probs
             ELSE [probs EXCEPT ![fs[idx.v]] = prob.v]

\* main.py 34-58: one iteration of the while loop
LerLinha ==
  /\ sp_pc = "lendo"
  /\ sp_pos < Len(sp_linhas)
  /\ LET entrada == sp_linhas[sp_pos + 1]
     IN /\ sp_pos' = sp_pos + 1
        /\ sp_anterior' = sp_probabilidades
        /\ IF EhFim(entrada)
             THEN /\ sp_pc' = "retornou"
                  /\ UNCHANGED sp_probabilidades
             ELSE /\ sp_pc' = "lendo"
                  /\ sp_probabilidades' = AposLinha(sp_probabilidades, entrada, sp_funcoes)
  /\ UNCHANGED <<sp_funcoes, sp_linhas>>
  /\ UNCHANGED <<douVars, zhangVars, extVars, briandVars, varVars, clsVars, autoVars>>

\* main.py 27: every listed function starts at 0.5
InitProbabilidades ==
  /\ DouParado
  /\ ZhangParado
  /\ ExtParado
  /\ BriandParado
  /\ VarParado
  /\ ClsParado
  /\ AutoParado
  /\ sp_funcoes \in {<<"f">>, <<"f", "g">>}
  /\ \E k \in 0..MaxLinhas : \E ls \in [1..k -> Linhas] : \E fim \in {LinhaVazia, LinhaPronto} :
       sp_linhas = ls \o <<fim>>
  /\ sp_pos = 0
  /\ sp_probabilidades = [f \in Range(sp_funcoes) |-> Flt(Rat(1, 2))]
  /\ sp_anterior = sp_probabilidades
  /\ sp_pc = "lendo"

NextProbabilidades == LerLinha

SpecProbabilidades == InitProbabilidades /\ [][NextProbabilidades]_vars

\* ================================================ AutomaticCouplingAnalyzer
NomesAuto == <<"f", "g", "h", "k">>

\* the FunctionInfo records of one function: parameter x, names x and v read,
\* name v written, calls to f, g and to a name that is not a function of the file
FunctionInfos(nome) ==
  [name : {nome}, params : SUBSET {"x"}, variables_read : SUBSET {"x", "v"},
   variables_write : SUBSET {"v"},
   calls : UNION {[1..k -> {"f", "g", "print"}] : k \in 0..MaxCallsAuto}]

NamesAuto(fns) == {fns[i].name : i \in DOMAIN fns}

InfoDe(fns, nome) == fns[CHOOSE i \in DOMAIN fns : fns[i].name = nome]

Coupling(source, target, tipo, subtipo, grau) ==
  [source |-> source.name, target |-> target.name, coupling_type |-> tipo,
   subtype |-> subtipo, degree |-> grau]

\* analisador_automatico.py 180-233
AnalyzeCoupling(source, target) ==
  LET shared_params == source.params \cap target.params
      shared_vars == (((source.variables_read \cup source.variables_write)
                        \cap (target.variables_read \cup target.variables_write))
                       \ source.params) \ target.params
  IN <<Coupling(source, target, "control", "function_call", Rat(1, 1))>>
     \o (IF shared_params # {}
           THEN <<Coupling(source, target, "data", "shared_parameters", Rat(3, 2))>>
           ELSE <<>>)
     \o (IF shared_vars # {}
           THEN <<Coupling(source, target, "data", "shared_variables", Rat(9, 5))>>
           ELSE <<>>)
     \o (IF target.name \in Range(source.calls) /\ (shared_params # {} \/ shared_vars # {})
           THEN <<Coupling(source, target, "hybrid_data_control", "call_with_data_sharing",
                           Rat(2, 1))>>
           ELSE <<>>)

\* the inner loop of _detect_couplings: the calls of one function, in list order
RECURSIVE CouplingsDasChamadas(_, _, _)
CouplingsDasChamadas(fns, func_info, calls) ==
  IF calls = <<>> THEN <<>>
  ELSE (IF Head(calls) \in NamesAuto(fns)
          THEN AnalyzeCoupling(func_info, InfoDe(fns, Head(calls)))
          ELSE <<>>)
       \o CouplingsDasChamadas(fns, func_info, Tail(calls))

\* the outer loop of _detect_couplings: the functions in dict order, from position i on
RECURSIVE CouplingsDe(_, _)
CouplingsDe(fns, i) ==
  IF i > Len(fns) THEN <<>>
  ELSE CouplingsDasChamadas(fns, fns[i], fns[i].calls) \o CouplingsDe(fns, i + 1)

\* analisador_automatico.py 170-178
DetectCouplings ==
  /\ auto_pc = "coletado"
  /\ auto_couplings' = CouplingsDe(auto_functions, 1)
  /\ auto_pc' = "detectado"
  /\ UNCHANGED <<auto_functions, auto_matrix>>
  /\ UNCHANGED <<douVars, zhangVars, extVars, briandVars, varVars, clsVars, probVars>>

RMax2(x, y) == IF RLt(x, y) THEN y ELSE x

\* the loop body with the mirrored assignment left out
AtualizarSoIda(matrix, coupling) ==
  LET current == matrix[coupling.source][coupling.target]
  IN [matrix EXCEPT ![coupling.source][coupling.target] = RMax2(current, coupling.degree)]

\* analisador_automatico.py 283-286: the loop body, the two assignments in order
Atualizar(matrix, coupling) ==
  LET current == matrix[coupling.source][coupling.target]
      m1 == [matrix EXCEPT ![coupling.source][coupling.target] = RMax2(current, coupling.degree)]
  IN [m1 EXCEPT ![coupling.target][coupling.source] = RMax2(current, coupling.degree)]

RECURSIVE MatrizApos(_, _)
MatrizApos(matrix, couplings) ==
  IF couplings = <<>> THEN matrix
  ELSE MatrizApos(Atualizar(matrix, Head(couplings)), Tail(couplings))

\* analisador_automatico.py 278-288
GenerateCouplingMatrix ==
  /\ auto_pc = "detectado"
  /\ LET func_names == NamesAuto(auto_functions)
         matrix == [f1 \in func_names |-> [f2 \in func_names |-> RZero]]
     IN auto_matrix' = MatrizApos(matrix, auto_couplings)
  /\ auto_pc' = "matriz"
  /\ UNCHANGED <<auto_functions, auto_couplings>>
  /\ UNCHANGED <<douVars, zhangVars, extVars, briandVars, varVars, clsVars, probVars>>

\* the state after _collect_definitions: one FunctionInfo per function name
InitAutomatico ==
  /\ DouParado
  /\ ZhangParado
  /\ ExtParado
  /\ BriandParado
  /\ VarParado
  /\ ClsParado
  /\ ProbParado
  /\ \E n \in 1..MaxFuncsAuto :
       auto_functions \in {s \in [1..n -> UNION {FunctionInfos(NomesAuto[i]) : i \in 1..n}] :
                              \A i \in 1..n : s[i].name = NomesAuto[i]}
  /\ auto_couplings = <<>>
  /\ auto_matrix = <<>>
  /\ auto_pc = "coletado"

NextAutomatico ==
  \/ DetectCouplings
  \/ GenerateCouplingMatrix

SpecAutomatico == InitAutomatico /\ [][NextAutomatico]_vars

\* ------------------------------------------------------ claims on SpecDou
DouTerminou == dou_pc \in {"done", "raised"}

Predecessores(a) == IF a \in DOMAIN var_dependencies THEN var_dependencies[a] ELSE {}

MaxDe(S) == CHOOSE m \in S : \A x \in S : x <= m

\* C1: once the depth labeling has finished, every variable that has at least one
\* predecessor has depth 1 + the maximum of its predecessors' final depths.
C1_ProfundidadeMaximaMaisUm ==
  (dou_pc \in {"vrm", "done"}) =>
     \A a \in VarSet :
        Predecessores(a) # {} =>
           profundidades[a] = 1 + MaxDe({profundidades[p] : p \in Predecessores(a)})

\* C2: every variable of depth 0 gets the hierarchical coefficient HC = 1.
C2_HCRaizUm ==
  (dou_pc \in {"vrm", "done"}) =>
     \A v \in VarSet : profundidades[v] = 0 => REq(hc_values[v], ROne)

\* C2 as amended: every variable of depth 0 gets HC = 2, the value the unguarded
\* formula (dep + 1) / 2^(dep - 1) takes at dep = 0.
C2_HCRaizDois ==
  (dou_pc \in {"vrm", "done"}) =>
     \A v \in VarSet : profundidades[v] = 0 => hc_values[v] = Rat(2, 1)

C2_Witness ==
  /\ dou_pc = "done"
  /\ \E v, w \in VarSet :
       /\ profundidades[v] = 0
       /\ hc_values[v] = Rat(2, 1)
       /\ profundidades[w] = 2
       /\ hc_values[w] = Rat(3, 2)

\* C7: built with zero variables, the VRM model ends without raising and reports
\* C_total = 0, C_mean = 0, HC_mean = 0, SC_mean = 0 and an empty detail list.
C7_ZeroVariaveisNeutro ==
  (n_vars = 0 /\ DouTerminou) =>
     /\ dou_erro = "none"
     /\ dou_result # <<>>
     /\ dou_result[1].C_vrm = SZero
     /\ dou_result[1].C_medio = SZero
     /\ dou_result[1].HC_medio = RZero
     /\ dou_result[1].SC_medio = SZero
     /\ dou_result[1].detalhado = <<>>

\* C10: a second run on the unchanged input labels every variable with the same
\* depth as the first run, whatever the order the root set is iterated in.
C10_ProfundidadesDeterministicas ==
  (execucoes = 2 /\ dou_pc \in {"vrm", "done"}) => profundidades = prof_anterior[1]

\* C16: within one run the deviation term is the population deviation, the same
\* for every variable: for any two variables i and j, SC_i - SC_j = X_i - X_j.
C16_DesvioUnico ==
  (dou_pc \in {"raizes", "bfs", "vrm", "done"}) =>
     /\ desvio2 = Desvio2De(frequencia, VarSet)
     /\ \A i, j \in VarSet :
          /\ sc_values[i].s = sc_values[j].s
          /\ RAdd(sc_values[i].q, Rat(-sc_values[j].q.num, sc_values[j].q.den))
                = Rat(frequencia[i] - frequencia[j], 1)

C16_Witness ==
  /\ dou_pc = "done"
  /\ desvio2.num > 0
  /\ \E i, j \in VarSet :
       /\ frequencia[i] > frequencia[j]
       /\ sc_values[i] = SVal(Rat(frequencia[i], 1), ROne)
       /\ sc_values[j] = SVal(Rat(frequencia[j], 1), ROne)

\* C21: the scoring components only read the graphs: no step of AnalisadorZhang
\* changes an entry of the adjacency matrix it was given, and no step of
\* AnalisadorDou, in the first run or in a later one, adds a key to the
\* dependency map or changes one of its sets.
C21_GrafosSoLeitura ==
  [][/\ (zhang_pc \in {"contar", "entropy", "judgment"}) =>
          matriz_adjacencia' = matriz_adjacencia
     /\ (dou_pc # "parado") => var_dependencies' = var_dependencies]_vars

C21_Witness ==
  /\ dou_pc = "done"
  /\ execucoes = 2
  /\ DOMAIN var_dependencies # {}
  /\ \E v \in VarSet : v \notin DOMAIN var_dependencies

\* C23: every variable without dependencies of its own has depth 0 from the
\* moment the roots are identified to the end of the labeling.
C23_RaizesEmZero ==
  (dou_pc \in {"bfs", "vrm", "done"}) =>
     \A v \in VarSet : Predecessores(v) = {} => profundidades[v] = 0

C23_Witness ==
  /\ dou_pc = "done"
  /\ \E r, v, w \in VarSet :
       /\ Predecessores(r) = {}
       /\ r \in Predecessores(v)
       /\ v \in Predecessores(w)
       /\ profundidades[r] = 0
       /\ profundidades[w] = 2

\* C29: each variable is put in the queue at most once, so the labeling ends
\* within N iterations, and every variable ends with a depth between 0 and N - 1,
\* also when the graph has cycles or no root.
C29_FilaUmaVezProfundidadeLimitada ==
  /\ (dou_pc = "bfs") =>
        /\ \A i, j \in 1..Len(fila) : i # j => fila[i] # fila[j]
        /\ Range(fila) \subseteq visitados
  /\ (dou_pc \in {"vrm", "done"}) =>
        \A v \in VarSet : profundidades[v] >= 0 /\ profundidades[v] <= n_vars - 1

\* ---------------------------------------------------- claims on SpecZhang
ZhangTerminou == zhang_pc \in {"done", "raised"}

SemArestas == zhang_pc # "inicio" /\ SomaForaDiagonal(matriz_adjacencia) = 0

MediaProb == RDiv(RSumSeq([i \in 1..n_funcs |-> probabilidades[funcoes[i]]]), Rat(n_funcs, 1))

C5_EntropiaZeroSemArestas ==
  (SemArestas /\ (\A f \in Funcs : TemProb(f)) /\ zhang_pc \in {"judgment", "done", "raised"}) =>
     /\ zhang_erro = "none"
     /\ entropy # <<>>
     /\ \A i \in 1..n_funcs : entropy[1].detalhado[i].termo = TermoZero
     /\ entropy[1].H_entropy = <<>>

C5_Witness ==
  /\ zhang_pc = "done"
  /\ SemArestas
  /\ n_funcs >= 2
  /\ \E f \in Funcs : probabilidades[f].num > 0
  /\ entropy[1].H_entropy = <<>>

\* C6: every per-entity entropy term is non-negative.
C6_TermosNaoNegativos ==
  (zhang_pc \in {"judgment", "done"}) =>
     \A i \in 1..n_funcs : SinalTermo(entropy[1].detalhado[i].termo) >= 0

\* C8: a function without an entry in the probability map is scored with 0.5 in
\* the entropy and in the judgment coupling, and no error reaches the caller.
C8_ProbabilidadePadrao ==
  (ZhangTerminou /\ \E f \in Funcs : ~TemProb(f)) =>
     /\ zhang_erro = "none"
     /\ entropy # <<>>
     /\ \A i \in 1..n_funcs :
          ~TemProb(funcoes[i]) => entropy[1].detalhado[i].pi = Rat(1, 2)

\* C12: M is the sum of the off-diagonal adjacency entries divided by 2 and
\* M_direct is that sum undivided.
C12_MetadeDaSoma ==
  (zhang_pc \in {"entropy", "judgment", "done", "raised"}) =>
     /\ 2 * contagem[1].M = SomaForaDiagonal(matriz_adjacencia)
     /\ contagem[1].M_diretos = SomaForaDiagonal(matriz_adjacencia)

\* C14: when the eigen-decomposition step raises (as it does with no function),
\* the model ends with the uniform priority vector, lambda_max = 0 and
\* C_judgment = 0, and no exception leaves the judgment step.
C14_FallbackUniforme ==
  /\ (zhang_pc = "done" /\ (n_funcs = 0 \/ julgamento[1].excecao)) =>
        /\ julgamento[1].excecao
        /\ julgamento[1].sorting_vector = [uniforme |-> TRUE, n |-> n_funcs]
        /\ julgamento[1].lambda_max = [lo |-> RZero, hi |-> RZero]
        /\ julgamento[1].C_judgment = [lo |-> RZero, hi |-> RZero]
        /\ zhang_erro = "none"
  /\ (zhang_pc = "raised") => entropy = <<>>

C14_Witness ==
  /\ zhang_pc = "done"
  /\ n_funcs = 0
  /\ julgamento[1].excecao
  /\ julgamento[1].sorting_vector = [uniforme |-> TRUE, n |-> 0]
  /\ julgamento[1].C_judgment = [lo |-> RZero, hi |-> RZero]

\* sign of t2 - t1 for two terms of the same function (same ni and M, so the same
\* log10 argument whenever the term is not 0.0)
SinalDiferenca(t1, t2) ==
  SinalTermo(Termo(RAdd(t2.coef, Rat(-t1.coef.num, t1.coef.den)),
                   IF t2.coef.num # 0 THEN t2.arg ELSE t1.arg))

\* C24: with the adjacency matrix fixed, raising the probability of one function
\* within [0,1] and keeping the others never lowers the total entropy H (only the
\* term of that function changes).
C24_HNaoDecresceComP ==
  (zhang_pc \in {"judgment", "done"}) =>
     \A i \in 1..n_funcs :
        \A q \in {Rat(0, 1), Rat(1, 2), Rat(1, 1)} :
           RLe(probabilidades[funcoes[i]], q) =>
              SinalDiferenca(entropy[1].detalhado[i].termo,
                             TermoDe(contagem[1].graus[i], q, contagem[1].M)) >= 0

\* C25: whenever the eigen-decomposition succeeds, the components of the stored
\* priority vector W sum to 1.
C25_WSomaUm ==
  (zhang_pc = "done" /\ ~julgamento[1].excecao) =>
     /\ Len(julgamento[1].W) = n_funcs
     /\ RSumSeq(julgamento[1].W) = ROne

C25_Witness ==
  /\ zhang_pc = "done"
  /\ ~julgamento[1].excecao
  /\ ~julgamento[1].sorting_vector.uniforme
  /\ n_funcs >= 3
  /\ \E i, j \in 1..n_funcs : RLt(julgamento[1].W[i], julgamento[1].W[j])
  /\ RSumSeq(julgamento[1].W) = ROne

\* C26: A[i][i] = 1 and, for i # j, A[i][j] = n_ij / rowSum(adjacency[i]) when
\* n_ij > 0 and 1 otherwise; every entry of A lies in (0, 1].
C26_MatrizJulgamento ==
  (zhang_pc = "done") =>
     LET A == julgamento[1].matriz_julgamento
     IN /\ Len(A) = n_funcs
        /\ \A i, j \in 1..n_funcs :
             /\ i = j => A[i][j] = ROne
             /\ (i # j /\ matriz_adjacencia[i][j] > 0) =>
                   /\ A[i][j].num * SomaLinha(matriz_adjacencia, i) =
                        A[i][j].den * matriz_adjacencia[i][j]
                   /\ A[i][j].den > 0
             /\ (i # j /\ matriz_adjacencia[i][j] <= 0) => A[i][j] = ROne
             /\ RLt(RZero, A[i][j])
             /\ RLe(A[i][j], ROne)

C26_Witness ==
  /\ zhang_pc = "done"
  /\ \E i, j, k \in 1..n_funcs :
       /\ i # j
       /\ k \notin {i, j}
       /\ matriz_adjacencia[i][j] = 1
       /\ matriz_adjacencia[i][k] = 1
       /\ matriz_adjacencia[j][i] = 0
       /\ julgamento[1].matriz_julgamento[i][j] = Rat(1, 2)
       /\ julgamento[1].matriz_julgamento[j][i] = ROne

\* sign of the sum of the terms of H when they settle it: 1 or -1 when some term
\* has that sign and none has the other, 0 when every term is 0, 2 when terms
\* of both signs are present
SinalSoma(termos) ==
  LET sinais == {SinalTermo(termos[k]) : k \in 1..Len(termos)}
  IN IF sinais \subseteq {0} THEN 0
     ELSE IF sinais \subseteq {0, 1} THEN 1
     ELSE IF sinais \subseteq {0, -1} THEN -1
     ELSE 2

\* C27: H_normalized lies in [0, 1] and is 0 when there is at most one function;
\* it is min(1, H / (n log10 n)) for n > 1, so it is below 0 exactly when H is.
C27_HNormalizadoEntreZeroEUm ==
  (zhang_pc \in {"judgment", "done"}) =>
     /\ (n_funcs <= 1) => ~entropy[1].H_normalized.limitado
     /\ entropy[1].H_normalized.limitado => SinalSoma(entropy[1].H_entropy) # -1

\* ------------------------------------------------- claims on SpecExtrator
\* the definition that self.funcoes holds for the qualified name f
NodeDe(f) == fonte[ext_funcoes[CHOOSE i \in 1..Len(ext_funcoes) : ext_funcoes[i].chave = f].node]

\* number of call sites of f whose callee name matches g
SitiosQueCasam(f, g) ==
  Cardinality({c \in 1..Len(NodeDe(f).chamadas) :
                 NodeDe(f).chamadas[c] # <<>> /\ Casa(NodeDe(f).chamadas[c], g)})

MatrizPronta == ext_pc = "done" /\ zhang_pc = "contar"

NomeLocal(f) == NodeDe(f).nome

ChamadasProntas == ext_pc \in {"main", "done"}

CalleesDe(u) == IF u \in DOMAIN chamadas THEN chamadas[u] ELSE {}

\* C11: an edge u -> v is recorded only if some call site of u has a callee name
\* that is a substring of, or a suffix of, the local name of v; a callee name that
\* matches only the module path of v creates no edge.
C11_CasaSoNomeLocal ==
  ChamadasProntas =>
     \A u \in Range(Chaves(ext_funcoes)) :
        \A v \in CalleesDe(u) :
           \E c \in 1..Len(NodeDe(u).chamadas) :
              /\ NodeDe(u).chamadas[c] # <<>>
              /\ Casa(NodeDe(u).chamadas[c], NomeLocal(v))

\* C19: no function is in its own callee set and the diagonal of the adjacency
\* matrix is 0, also for a function that calls itself or whose call sites name
\* a substring of its own qualified name.
C19_SemLacos ==
  /\ ChamadasProntas => \A u \in Range(Chaves(ext_funcoes)) : u \notin CalleesDe(u)
  /\ MatrizPronta => \A i \in 1..n_funcs : matriz_adjacencia[i][i] = 0

C19_Witness ==
  /\ MatrizPronta
  /\ \E i, j \in 1..n_funcs :
       /\ i # j
       /\ SitiosQueCasam(funcoes[i], funcoes[i]) >= 1
       /\ SitiosQueCasam(funcoes[i], funcoes[j]) >= 1
       /\ funcoes[j] \in CalleesDe(funcoes[i])
       /\ funcoes[i] \notin CalleesDe(funcoes[i])
       /\ matriz_adjacencia[i][i] = 0
       /\ matriz_adjacencia[i][j] = 1


\* the definitions of the files that parse, by position in the traversal
Parseaveis == {k \in 1..Len(fonte) : fonte[k].parseia}

PrimeiraDe(chave) ==
  CHOOSE k \in Parseaveis :
     /\ NomeQualificado(fonte[k]) = chave
     /\ \A j \in Parseaveis : NomeQualificado(fonte[j]) = chave => k <= j

UltimaDe(chave) ==
  CHOOSE k \in Parseaveis :
     /\ NomeQualificado(fonte[k]) = chave
     /\ \A j \in Parseaveis : NomeQualificado(fonte[j]) = chave => j <= k

\* C15: whatever files fail to parse and wherever they are in the traversal, the
\* function table is the one of the files that parse alone: one entry per
\* qualified name declared in them, in the order of first declaration, holding
\* the last declaration of that name; and extraction goes on after a failure.
C15_TabelaDosParseaveis ==
  (ext_pc \in {"chamadas", "main", "done", "exit"}) =>
     /\ Range(Chaves(ext_funcoes)) = {NomeQualificado(fonte[k]) : k \in Parseaveis}
     /\ \A i, j \in 1..Len(ext_funcoes) :
          i < j => PrimeiraDe(ext_funcoes[i].chave) < PrimeiraDe(ext_funcoes[j].chave)
     /\ \A i \in 1..Len(ext_funcoes) :
          ext_funcoes[i].node = UltimaDe(ext_funcoes[i].chave)

C15_Witness ==
  /\ ext_pc = "done"
  /\ Len(fonte) = 3
  /\ ~fonte[1].parseia
  /\ fonte[2].parseia
  /\ fonte[3].parseia
  /\ Len(ext_funcoes) = 2
  /\ ext_funcoes[1].node = 2
  /\ ext_funcoes[2].node = 3

\* --------------------------------------------------- claims on SpecBriand
\* C9: after any sequence of analyze_source calls every elementary coupling held
\* for datum d has N = the number of times d is passed as an argument over all
\* call sites of all the sources analysed so far, and value = C * PC * N.
C9_NContaTodoOConjunto ==
  \A k \in 1..Len(elementary) :
     /\ elementary[k].N = DataUsageCount(vistas, elementary[k].data_name)
     /\ elementary[k].value = elementary[k].C * elementary[k].PC * elementary[k].N

\* the scenario of C13: one source analysed, in which mmc calls mdc(a, b) once and
\* no other call passes a or b
CenarioMmcMdc ==
  /\ analises = 1
  /\ Cardinality({k \in 1..Len(vistas) :
                     vistas[k] = [src |-> "mmc", tgt |-> "mdc", args |-> <<"a", "b">>]}) = 1
  /\ DataUsageCount(vistas, "a") = 1
  /\ DataUsageCount(vistas, "b") = 1

IndicesEC(d) == {k \in 1..Len(elementary) : elementary[k].data_name = d}

\* C13: in that scenario EC[a] and EC[b] are recorded with N = 1 each and the
\* coupling of mmc is MC(mmc) = 2.
C13_MCMmcDois ==
  CenarioMmcMdc =>
     /\ \A d \in {"a", "b"} :
          /\ Cardinality(IndicesEC(d)) = 1
          /\ \A k \in IndicesEC(d) : elementary[k].N = 1 /\ elementary[k].source = "mmc"
     /\ TotalCoupling("mmc") = 2

\* arguments that the calls made inside m pass
ArgsPassadosPor(m) ==
  SumSeq([k \in 1..Len(vistas) |-> IF vistas[k].src = m THEN Len(vistas[k].args) ELSE 0])

\* C13 as amended: in that scenario EC[a] and EC[b] are recorded with N = 1 each
\* and contribute 2 to MC(mmc); every other argument that a call inside mmc passes
\* adds its own N, so MC(mmc) = 2 only when mmc passes no other argument.
C13_MCMmcDoisMaisOutros ==
  CenarioMmcMdc =>
     /\ \A d \in {"a", "b"} :
          /\ Cardinality(IndicesEC(d)) = 1
          /\ \A k \in IndicesEC(d) :
               /\ elementary[k].N = 1
               /\ elementary[k].value = 1
               /\ elementary[k].source = "mmc"
     /\ TotalCoupling("mmc") =
          2 + (ArgsPassadosPor("mmc") - 2) * DataUsageCount(vistas, "BinOp")
     /\ (ArgsPassadosPor("mmc") = 2) => TotalCoupling("mmc") = 2

C13_Witness ==
  /\ CenarioMmcMdc
  /\ Len(vistas) = 2
  /\ \E k \in 1..2 : vistas[k].src = "mmc" /\ vistas[k].args = <<"BinOp">>
  /\ TotalCoupling("mmc") = 3

\* C22: aggregate_by_module has an entry exactly for each function that is the
\* source of some elementary coupling; the entry's total_coupling is the sum of the
\* values of exactly the couplings whose source is that function, so a coupling
\* adds nothing to the score of the function it calls.
C22_SoArestasDeSaida ==
  /\ DOMAIN AggregateByModule = {elementary[k].source : k \in 1..Len(elementary)}
  /\ \A m \in DOMAIN AggregateByModule :
       /\ AggregateByModule[m].element = m
       /\ TotalCouplingDe(AggregateByModule[m]) =
            SumSeq([k \in 1..Len(elementary) |->
                      IF elementary[k].source = m THEN elementary[k].value ELSE 0])

C22_Witness ==
  /\ analises = 2
  /\ DOMAIN AggregateByModule = {"mmc", "mdc"}
  /\ \A k \in 1..Len(elementary) : elementary[k].target = "mdc"
  /\ TotalCouplingDe(AggregateByModule["mmc"]) = 4
  /\ TotalCouplingDe(AggregateByModule["mdc"]) = 1

\* ------------------------------------------- claims on SpecClassificacao
\* C17: the function-level VRM classifier returns low when C < 2.0, moderate
\* when 2.0 <= C <= 5.0 and high only when C > 5.0.
C17_LimitesDou13 ==
  (cls_modelo = "dou13" /\ cls_classe # "none") =>
     /\ cls_classe = Baixo <=> RLt(cls_valor, Rat(2, 1))
     /\ cls_classe = Moderado <=> (RLe(Rat(2, 1), cls_valor) /\ RLe(cls_valor, Rat(5, 1)))
     /\ cls_classe = Alto <=> RLt(Rat(5, 1), cls_valor)

\* C18: the Zhang classifier returns low for H < 0.33, moderate for
\* 0.33 <= H < 0.66 and high for H >= 0.66, exactly one class per H.
C18_LimitesZhang ==
  (cls_modelo = "zhang" /\ cls_classe # "none") =>
     /\ cls_classe \in {Baixo, Moderado, Alto}
     /\ cls_classe = Baixo <=> RLt(cls_valor, Rat(33, 100))
     /\ cls_classe = Moderado <=>
          (RLe(Rat(33, 100), cls_valor) /\ RLt(cls_valor, Rat(66, 100)))
     /\ cls_classe = Alto <=> RLe(Rat(66, 100), cls_valor)

C18_Witness ==
  /\ cls_modelo = "zhang"
  /\ cls_valor = Rat(66, 100)
  /\ cls_classe = Alto

\* ----------------------------------------------- claims on SpecVariaveis
\* C20: every dependency edge a -> b links two different variables that are both
\* keys of the variable table and have the same owning function.
C20_ArestasNaMesmaFuncao ==
  (var_pc = "done") =>
     \A a \in DOMAIN ext_var_dependencies :
        \A b \in ext_var_dependencies[a] :
           /\ a # b
           /\ a \in DOMAIN ext_variaveis
           /\ b \in DOMAIN ext_variaveis
           /\ ext_variaveis[a].funcao = ext_variaveis[b].funcao

C20_Witness ==
  /\ var_pc = "done"
  /\ Len(corpos) = 2
  /\ \E f, g \in 1..2 :
       /\ f # g
       /\ corpos[f].stmts = <<[tipo |-> "Assign", alvo |-> <<"a", "a">>,
                               nomes |-> <<<<"a", "a">>, <<"b", "b">>>>]>>
       /\ Len(corpos[g].stmts) = 1
       /\ NomeCompleto(corpos[g].chave, <<"b", "b">>) \in DOMAIN ext_variaveis
       /\ ext_var_dependencies[NomeCompleto(corpos[f].chave, <<"a", "a">>)]
            = {NomeCompleto(corpos[f].chave, <<"b", "b">>)}

\* ------------------------------------------- claims on SpecProbabilidades
\* a float that is a number between 0 and 1, both ends included
ValorEm01(x) == ~x.nan /\ RLe(RZero, x.r) /\ RLe(x.r, ROne)

\* a line with a malformed format, an index outside 1..n or a probability outside [0, 1]
LinhaRejeitavel(partes, fs) ==
  \/ Len(partes) < 2
  \/ ~IntDe(partes[1]).ok
  \/ ~FloatDe(partes[2]).ok
  \/ IntDe(partes[1]).v < 1
  \/ IntDe(partes[1]).v > Len(fs)
  \/ ~ValorEm01(FloatDe(partes[2]).v)

AtribuiValidamente(partes, fs, f) ==
  /\ ~LinhaRejeitavel(partes, fs)
  /\ fs[IntDe(partes[1]).v] = f

\* C28: for input lines ending with an empty line or "pronto", the returned map has
\* one entry per listed function with a value in [0, 1]; a line with a malformed
\* format, an index outside 1..n or a probability outside [0, 1] leaves the map
\* unchanged; a function never validly assigned keeps the default 0.5.
C28_MapaDeProbabilidades ==
  /\ (sp_pc = "retornou") =>
        /\ DOMAIN sp_probabilidades = Range(sp_funcoes)
        /\ \A f \in Range(sp_funcoes) : ValorEm01(sp_probabilidades[f])
        /\ \A f \in Range(sp_funcoes) :
              (\A i \in 1..sp_pos : ~AtribuiValidamente(sp_linhas[i], sp_funcoes, f))
                 => sp_probabilidades[f] = Flt(Rat(1, 2))
  /\ (sp_pos > 0 /\ LinhaRejeitavel(sp_linhas[sp_pos], sp_funcoes))
        => sp_probabilidades = sp_anterior

\* ----------------------------------------------- claims on SpecAutomatico
\* the degrees of the couplings recorded between f and g, in either direction
GrausEntre(f, g) ==
  {auto_couplings[i].degree :
     i \in {j \in DOMAIN auto_couplings :
              {auto_couplings[j].source, auto_couplings[j].target} = {f, g}}}

\* C30: the coupling matrix is symmetric, and matrix[f][g] = matrix[g][f] is the
\* maximum degree of the couplings recorded between f and g in either direction,
\* 0 when there is none.
C30_MatrizSimetricaMaxima ==
  (auto_pc = "matriz") =>
     \A f, g \in NamesAuto(auto_functions) :
        /\ auto_matrix[f][g] = auto_matrix[g][f]
        /\ auto_matrix[f][g] =
             (IF GrausEntre(f, g) = {} THEN RZero ELSE RMax(GrausEntre(f, g)))

C30_Witness ==
  /\ auto_pc = "matriz"
  /\ Len(auto_functions) = 2
  /\ "g" \in Range(auto_functions[1].calls)
  /\ "f" \notin Range(auto_functions[2].calls)
  /\ Len(auto_couplings) >= 3
  /\ auto_matrix["f"]["g"] = Rat(2, 1)
  /\ auto_matrix["g"]["f"] = Rat(2, 1)
  /\ auto_matrix["g"]["g"] = RZero

====
